---------------------------- MODULE Spec2Model ----------------------------
(***************************************************************************)
(* A model of app1.py: the randomized meal-suggestion engine suggest_meal  *)
(* (lines 5-25) and the log handling of the Streamlit script around it     *)
(* (sidebar lines 78-89, Save lines 155-195, preview lines 200-242).       *)
(*                                                                         *)
(* app1.py binds random (line 3)    and, later, st, pd, go, datetime, os   *)
(* and defaultdict (lines 33-38); it binds no name np.  Line 14 therefore  *)
(* raises NameError in every trial, lines 15-24 are reached by no call,    *)
(* and score (lines 6-7) is modelled as the function it defines, applied   *)
(* to meals and targets drawn from bounded sets (ScoreSpec).               *)
(*                                                                         *)
(* Numbers.  Portion multipliers are kept in half units (0.5 is 1, 1.0 is  *)
(* 2, 1.5 is 3), so every scaled column and every column total is an       *)
(* integer number of half units.  The constant 1e-6 of the score function  *)
(* is kept symbolic as eps: a score is an exact rational function of eps,  *)
(* held as the coefficients of a polynomial in eps over a denominator.     *)
(* Only the sign of a score is used, and whether it is zero; the double    *)
(* the code computes has the sign of the exact value in the ranges         *)
(* explored.  Scores are not compared with each other: the comparison of   *)
(* line 22 is reached by no call.                                          *)
(***************************************************************************)
EXTENDS Integers, Sequences, FiniteSets, TLC

(***************************************************************************)
(* Bounds of the exploration.                                              *)
(***************************************************************************)
MaxCatalog == 3
MaxTrials == 3
MaxItems == 4

(***************************************************************************)
(* 1e-6 at line 7 is 1 / EpsInv.                                           *)
(***************************************************************************)
EpsInv == 1000000

Macros == {"Calories", "Protein", "Carbs", "Fats"}

\* the catalog column that holds the per-unit value of a macro (lines 17-20, 64)
PerUnit(m) ==
    CASE m = "Calories" -> "Calories (kcal)"
      [] m = "Protein" -> "Protein (g)"
      [] m = "Carbs" -> "Carbs (g)"
      [] m = "Fats" -> "Fats (g)"

(***************************************************************************)
(* The food table read by load_data (lines 62-65): rows with the seven     *)
(* columns of line 64.  Quantity is in half units like the multipliers.    *)
(* The names are ordinary food names: none is "Total", "Meal Logged" or    *)
(* "---", and none is a missing-value marker of read_csv.                  *)
(***************************************************************************)
FoodRow(name, kcal, p, c, f) ==
    ("Food Item" :> name) @@ ("Serving Size" :> "1 unit") @@
    ("Calories (kcal)" :> kcal) @@ ("Protein (g)" :> p) @@
    ("Carbs (g)" :> c) @@ ("Fats (g)" :> f) @@ ("Quantity" :> 2)

FoodTable ==
    << FoodRow("Oats", 2, 1, 0, 0),
       FoodRow("Water", 0, 0, 0, 0),
       FoodRow("Rice", 1, 0, 1, 0),
       FoodRow("Milk", 1, 1, 0, 1),
       FoodRow("Nuts", 3, 1, 0, 2),
       FoodRow("Bowl", 600, 40, 50, 20) >>

\* a data frame is a sequence of [label, row]: the index label and the columns
Frame(n) == [ i \in 1..n |-> [ label |-> i - 1, row |-> FoodTable[i] ] ]

load_data(n) == Frame(n)

(***************************************************************************)
(* Polynomials in eps, as coefficient sequences <<c0, c1, ...>>.           *)
(***************************************************************************)
PolyCoef(p, i) == IF i >= 1 /\ i <= Len(p) THEN p[i] ELSE 0

PolyAdd(p, q) ==
    [ i \in 1..(IF Len(p) >= Len(q) THEN Len(p) ELSE Len(q)) |->
        PolyCoef(p, i) + PolyCoef(q, i) ]

PolyScale(a, p) == [ i \in 1..Len(p) |-> a * p[i] ]

\* p * (t + eps)
PolyTimesShifted(p, t) ==
    [ i \in 1..(Len(p) + 1) |-> t * PolyCoef(p, i) + PolyCoef(p, i - 1) ]

\* the sign of the value at eps = 1 / EpsInv: while every coefficient is
\* below EpsInv - 1 in size (PolySmall) the lowest non-zero one decides it
RECURSIVE PolySignFrom(_, _)
PolySignFrom(p, i) ==
    IF i > Len(p) THEN 0
    ELSE IF p[i] > 0 THEN 1
    ELSE IF p[i] < 0 THEN -1
    ELSE PolySignFrom(p, i + 1)

PolySign(p) == PolySignFrom(p, 1)

PolySmall(p) == \A i \in 1..Len(p) : p[i] < EpsInv - 1 /\ -p[i] < EpsInv - 1

Abs(x) == IF x < 0 THEN -x ELSE x

RECURSIVE ProductShifted(_, _)
\* the product of (t[m] + eps) over m in S
ProductShifted(S, t) ==
    IF S = {} THEN <<1>>
    ELSE LET m == CHOOSE y \in S : TRUE
         IN PolyTimesShifted(ProductShifted(S \ {m}, t), t[m])

RECURSIVE PolySum(_, _)
PolySum(S, f) ==
    IF S = {} THEN <<0>>
    ELSE LET x == CHOOSE y \in S : TRUE IN PolyAdd(f[x], PolySum(S \ {x}, f))

(***************************************************************************)
(* Values of the engine.                                                   *)
(***************************************************************************)
None == [ kind |-> "None", rows |-> <<>> ]

DataFrame(rows) == [ kind |-> "DataFrame", rows |-> rows ]

\* float('inf') of line 9
Inf == [ inf |-> TRUE, num |-> <<>>, den |-> <<>> ]

\* a name that no statement has bound yet
Unbound == [ inf |-> FALSE, num |-> <<>>, den |-> <<>> ]

\* Series.sum() of one column of a frame
RECURSIVE ColumnSumFrom(_, _, _)
ColumnSumFrom(rows, col, i) ==
    IF i > Len(rows) THEN 0
    ELSE rows[i].row[col] + ColumnSumFrom(rows, col, i + 1)

ColumnSum(frame, col) == ColumnSumFrom(frame.rows, col, 1)

(***************************************************************************)
(* score (lines 6-7): the sum over the macros m of targets of              *)
(*     abs(meal[m].sum() - targets[m]) / (targets[m] + 1e-6).              *)
(* Column sums are in half units, so with T = 2 * targets[m] a term is     *)
(*     abs(sum - T) / (2 * (targets[m] + eps)),                            *)
(* and the score is num / (2 * den) with den the product of all            *)
(* (targets[m] + eps) and num the sum of abs(sum - T) times the product of *)
(* the other (targets[j] + eps).                                           *)
(***************************************************************************)
ScoreTerm(meal, t, m) ==
    PolyScale(Abs(ColumnSum(meal, m) - 2 * t[m]),
              ProductShifted(DOMAIN t \ {m}, t))

score(meal, t) ==
    [ inf |-> FALSE,
      num |-> PolySum(DOMAIN t, [ m \in DOMAIN t |-> ScoreTerm(meal, t, m) ]),
      den |-> ProductShifted(DOMAIN t, t) ]

\* the sign of a finite score
ScoreSign(s) == PolySign(s.num) * PolySign(s.den)

(***************************************************************************)
(* The random draws of line 13, as the sets of their outcomes.             *)
(***************************************************************************)
\* random.randint(2, max_items): an integer of 2..b, ValueError when empty
RandInt(a, b) == a..b

\* DataFrame.sample(n): n rows at pairwise distinct positions, in any order
SampleWithReplacement(frame, n) ==
    { [ i \in 1..n |-> frame.rows[pos[i]] ] :
        pos \in [ 1..n -> 1..Len(frame.rows) ] }

SampleOutcomes(frame, n) ==
    { [ i \in 1..n |-> frame.rows[pos[i]] ] :
        pos \in { q \in [ 1..n -> 1..Len(frame.rows) ] :
                    \A i, j \in 1..n : i # j => q[i] # q[j] } }

(***************************************************************************)
(* The meal frame score is applied to: lines 16-20 give it the Quantity    *)
(* column and the four macro columns, each the per-unit column times the   *)
(* Quantity.                                                               *)
(***************************************************************************)
ScaledRow(r, q) ==
    [ label |-> r.label,
      row |-> ("Quantity" :> q) @@
              [ m \in Macros |-> r.row[PerUnit(m)] * q ] @@ r.row ]

\* the default portion_sizes of line 5, [0.5, 1.0, 1.5], in half units
DefaultPortions == << 1, 2, 3 >>

\* the meals of k rows of a frame, every row at a multiplier of the list
MealsOf(frame, k, sizes) ==
    { DataFrame([ j \in 1..k |-> ScaledRow(rows[j], q[j]) ]) :
        rows \in SampleOutcomes(frame, k),
        q \in [ 1..k -> { sizes[j] : j \in 1..Len(sizes) } ] }

Meals(frame) ==
    UNION { MealsOf(frame, k, DefaultPortions) : k \in 2..Len(frame.rows) }

(***************************************************************************)
(* The log (lines 155-242).  A cell of a pandas frame is a string, a       *)
(* number or NaN; a field of the CSV file is the text to_csv wrote for it. *)
(* Quantities and macro values stay in half units.                         *)
(***************************************************************************)
Str(x) == [ t |-> "str", s |-> x, n |-> 0 ]

Num(x) == [ t |-> "num", s |-> "", n |-> x ]

NaN == [ t |-> "nan", s |-> "", n |-> 0 ]

CsvText(x) == [ t |-> "text", s |-> x, n |-> 0 ]

CsvNumber(x) == [ t |-> "number", s |-> "", n |-> x ]

LogColumns ==
    << "Food Item", "Quantity", "Calories", "Protein", "Carbs", "Fats",
       "Timestamp", "Meal Tag" >>

\* fields that read_csv takes for missing values: its default na_values,
\* as of pandas 2.0, which added "None" to the markers of pandas 1.x
NaValues ==
    { "", "#N/A", "#N/A N/A", "#NA", "-1.#IND", "-1.#QNAN", "-NaN", "-nan",
      "1.#IND", "1.#QNAN", "<NA>", "N/A", "NA", "NULL", "NaN", "None", "n/a",
      "nan", "null" }

\* DataFrame.to_csv(log_file, index=False): NaN and "" are written empty
ToField(cell) ==
    IF cell.t = "num" THEN CsvNumber(cell.n)
    ELSE IF cell.t = "nan" THEN CsvText("")
    ELSE CsvText(cell.s)

to_csv(rows) ==
    [ exists |-> TRUE,
      header |-> LogColumns,
      rows |-> [ j \in 1..Len(rows) |->
                   [ c \in DOMAIN rows[j] |-> ToField(rows[j][c]) ] ] ]

\* pd.read_csv(log_file): a field among the missing-value markers is NaN
FromField(field) ==
    IF field.t = "number" THEN Num(field.n)
    ELSE IF field.s \in NaValues THEN NaN
    ELSE Str(field.s)

read_csv(file) ==
    [ j \in 1..Len(file.rows) |->
        [ c \in DOMAIN file.rows[j] |-> FromField(file.rows[j][c]) ] ]

\* DataFrame.fillna("")
fillna(rows) ==
    [ j \in 1..Len(rows) |->
        [ c \in DOMAIN rows[j] |->
            IF rows[j][c].t = "nan" THEN Str("") ELSE rows[j][c] ] ]

Absent == [ exists |-> FALSE, header |-> <<>>, rows |-> <<>> ]

\* os.path.exists(log_file) and os.path.getsize(log_file) > 0 (lines 78, 183, 200)
NonEmptyLog(file) == file.exists /\ Len(file.header) + Len(file.rows) > 0

\* datetime.now().strftime("%Y-%m-%d %H:%M:%S") and the fields str.split() cuts
Instants ==
    << [ text |-> "2024-01-01 12:00:00", fields |-> << "2024-01-01", "12:00:00" >> ],
       [ text |-> "2024-01-01 18:30:00", fields |-> << "2024-01-01", "18:30:00" >> ],
       [ text |-> "2024-01-02 08:00:00", fields |-> << "2024-01-02", "08:00:00" >> ] >>

Split(text) ==
    IF \E j \in 1..Len(Instants) : Instants[j].text = text
    THEN Instants[CHOOSE j \in 1..Len(Instants) : Instants[j].text = text].fields
    ELSE <<>>

RECURSIVE CellSumFrom(_, _, _)
CellSumFrom(rows, col, j) ==
    IF j > Len(rows) THEN 0
    ELSE rows[j][col].n + CellSumFrom(rows, col, j + 1)

\* the sum of one column of a list of rows
CellSum(rows, col) == CellSumFrom(rows, col, 1)

\* lines 110-122: the result row of one selected item at quantity qty
ResultRow(frame, item, qty) ==
    LET at == CHOOSE j \in 1..Len(frame.rows) :
                 /\ frame.rows[j].row["Food Item"] = item
                 /\ \A l \in 1..(j - 1) : frame.rows[l].row["Food Item"] # item
        row == frame.rows[at].row
    IN ("Food Item" :> Str(item)) @@ ("Quantity" :> Num(qty)) @@
       [ m \in Macros |-> Num(row[PerUnit(m)] * qty) ]

\* lines 127-130: the Total row appended to the summary
TotalRow(rows) ==
    ("Food Item" :> Str("Total")) @@ ("Quantity" :> Str("")) @@
    [ m \in Macros |-> Num(CellSum(rows, m)) ]

\* lines 159-181: the rows Save appends for one meal
MealData(summary) ==
    LET notTotal(r) == r["Food Item"] # Str("Total")
        kept == SelectSeq(summary, notTotal)
    IN [ j \in 1..Len(kept) |->
           ("Timestamp" :> Str("")) @@ ("Meal Tag" :> Str("")) @@ kept[j] ]

SummaryRow(total, timestamp, tag) ==
    ("Food Item" :> Str("Meal Logged")) @@ ("Quantity" :> Str("")) @@
    [ m \in Macros |-> total[m] ] @@
    ("Timestamp" :> Str(timestamp)) @@ ("Meal Tag" :> Str(tag))

DividerRow ==
    ("Food Item" :> Str("---")) @@
    [ c \in { LogColumns[j] : j \in 1..Len(LogColumns) } |-> Str("") ]

LogRows(summary, total, timestamp, tag) ==
    MealData(summary) \o << SummaryRow(total, timestamp, tag) >> \o << DividerRow >>

\* lines 183-192: the file after the save
SavedLog(file, log_df) ==
    IF NonEmptyLog(file)
    THEN to_csv(read_csv(file) \o log_df)
    ELSE to_csv(log_df)

\* lines 229-231, with 0-based positions: the position the scan stops at
RECURSIVE ScanBack(_, _)
ScanBack(rows, start) ==
    IF start >= 0 /\ rows[start + 1]["Food Item"] \notin { Str("Meal Logged"), Str("---") }
    THEN ScanBack(rows, start - 1)
    ELSE start

\* lines 225-242: what is rendered for the meal whose marker is at position j
RenderMeal(rows, j) ==
    LET start == ScanBack(rows, j - 1)
        data == SubSeq(rows, start + 2, j)
        p == CellSum(data, "Protein")
        c == CellSum(data, "Carbs")
        f == CellSum(data, "Fats")
    IN [ index |-> j, first |-> start + 1,
         tag |-> rows[j + 1]["Meal Tag"].s,
         ts |-> rows[j + 1]["Timestamp"].s,
         Protein |-> p, Carbs |-> c, Fats |-> f,
         Calories |-> p * 4 + c * 4 + f * 9 ]

\* line 202: the positions of the 'Meal Logged' rows
RECURSIVE MealIndexFrom(_, _)
MealIndexFrom(rows, j) ==
    IF j >= Len(rows) THEN <<>>
    ELSE (IF rows[j + 1]["Food Item"] = Str("Meal Logged") THEN << j >> ELSE <<>>)
         \o MealIndexFrom(rows, j + 1)

MealIndex(rows) == MealIndexFrom(rows, 0)

\* lines 203-207: the day groups, in the order their first meal is met
RECURSIVE DayGroupsFrom(_, _, _, _)
DayGroupsFrom(rows, index, j, groups) ==
    IF j > Len(index) THEN groups
    ELSE LET day == Split(rows[index[j] + 1]["Timestamp"].s)[1]
             at == { g \in 1..Len(groups) : groups[g].day = day }
         IN DayGroupsFrom(rows, index, j + 1,
               IF at = {}
               THEN Append(groups, [ day |-> day, indices |-> << index[j] >> ])
               ELSE [ g \in 1..Len(groups) |->
                        IF g \in at
                        THEN [ groups[g] EXCEPT !.indices = Append(@, index[j]) ]
                        ELSE groups[g] ])

DayGroups(rows) == DayGroupsFrom(rows, MealIndex(rows), 1, <<>>)

\* lines 217-255: the groups as rendered
RenderGroups(rows) ==
    LET groups == DayGroups(rows)
    IN [ g \in 1..Len(groups) |->
           [ day |-> groups[g].day,
             meals |-> [ j \in 1..Len(groups[g].indices) |->
                           RenderMeal(rows, groups[g].indices[j]) ] ] ]

NotRendered == [ rendered |-> FALSE, groups |-> <<>> ]

(***************************************************************************)
(* The inputs explored.                                                    *)
(***************************************************************************)
PortionChoices == { <<>>, <<2>>, <<1, 3>> }

TargetChoices ==
    { [ Calories |-> 2, Protein |-> 1, Carbs |-> 0, Fats |-> 0 ],
      [ Calories |-> 3 ],
      [ Calories |-> -1, Protein |-> 1 ] }

\* the meals a user may log before the exploration stops
MaxMeals == 2

\* what the user types as the meal tag (line 103)
Tags == { "", "Lunch", "N/A" }

\* what the user picks in the multiselect (line 104)
Selections == { <<>>, << "Bowl" >>, << "Oats", "Rice" >> }

\* the quantities entered at line 112; 2 is the default, 1.0
Quantities == { 2, 3 }

Foods(selection) == { selection[j] : j \in 1..Len(selection) }

\* an interaction: the button clicked and the widget values it is run with.
\* Every tag, selection and quantity is explored under Save; the other
\* buttons are explored with the tag left empty and the default quantities.
Events ==
    { e \in [ button : { "save" },
              meal_tag : Tags,
              selected_items : Selections \ { <<>> },
              qty : UNION { [ Foods(sel) -> Quantities ] : sel \in Selections } ] :
        DOMAIN e.qty = Foods(e.selected_items) }
    \cup
    { e \in [ button : { "none", "clear", "reset" },
              meal_tag : { "" },
              selected_items : Selections,
              qty : UNION { [ Foods(sel) -> { 2 } ] : sel \in Selections } ] :
        DOMAIN e.qty = Foods(e.selected_items) }

\* no interaction is being served
NoEvent ==
    [ button |-> "none", meal_tag |-> "", selected_items |-> <<>>,
      qty |-> << >> ]

VARIABLES
    df, targets, trials, portion_sizes, max_items,  \* the arguments
    pc,                 \* the statement reached
    i,                  \* iterations of line 12 begun
    k,                  \* the last value drawn by random.randint, 0 before
    sampled,            \* the frame bound at line 13, None before
    best_score, best_combo,
    raised,             \* the exception that ended the call, "" when none
    returned            \* the value returned, None until line 25

\* an application of score (lines 6-7)
VARIABLES
    meal,               \* the frame it is applied to
    s                   \* its value, Unbound until it is computed

\* the state of the Streamlit script around the engine
VARIABLES
    log_file,           \* nutrition_log.csv (line 57)
    reset_trigger,      \* st.session_state.reset_trigger
    run_pc,             \* the section of the script the current run reached
    event,              \* the button pressed and the widget values of the run
    results,            \* the list built by lines 106-122
    preview,            \* what lines 200-255 rendered in the current run
    exception,          \* the exception that stopped the current run, or ""
    clock,              \* datetime.now(), as an index of Instants
    saved               \* the meals saved since the log was last removed

engine_vars == << df, targets, trials, portion_sizes, max_items, pc, i, k,
                  sampled, best_score, best_combo, raised, returned >>

score_vars == << meal, s >>

app_vars == << log_file, reset_trigger, run_pc, event, results, preview,
               exception, clock, saved >>

vars == << engine_vars, score_vars, app_vars >>

args == << df, targets, trials, portion_sizes, max_items >>

\* the locals of suggest_meal as a call begins (lines 9-10)
CallBegins ==
    /\ pc = "for"
    /\ i = 0
    /\ k = 0
    /\ sampled = None
    /\ best_score = Inf
    /\ best_combo = None
    /\ raised = ""
    /\ returned = None

\* score has not been applied
ScoreIdle ==
    /\ meal = None
    /\ s = Unbound

\* the script before its first run: no log, lines 45-46
SessionBegins ==
    /\ log_file = Absent
    /\ reset_trigger = FALSE
    /\ run_pc = "idle"
    /\ event = NoEvent
    /\ results = <<>>
    /\ preview = NotRendered
    /\ exception = ""
    /\ clock = 1
    /\ saved = <<>>

Init ==
    /\ \E n \in 0..MaxCatalog : df = DataFrame(load_data(n))
    /\ targets \in TargetChoices
    /\ trials \in 0..MaxTrials
    /\ portion_sizes \in PortionChoices
    /\ max_items \in 1..MaxItems
    /\ CallBegins
    /\ ScoreIdle
    /\ SessionBegins

Raise(e) ==
    /\ pc' = "raised"
    /\ raised' = e

\* line 12: for _ in range(trials)
For ==
    /\ pc = "for"
    /\ IF i < trials
       THEN /\ i' = i + 1
            /\ pc' = "randint"
       ELSE /\ pc' = "return"
            /\ UNCHANGED i
    /\ UNCHANGED << app_vars, score_vars, args, k, sampled, best_score,
                    best_combo, raised, returned >>

\* line 13, the argument: random.randint(2, max_items)
Randint ==
    /\ pc = "randint"
    /\ IF RandInt(2, max_items) = {}
       THEN /\ Raise("ValueError")
            /\ UNCHANGED k
       ELSE /\ k' \in RandInt(2, max_items)
            /\ pc' = "sample"
            /\ UNCHANGED raised
    /\ UNCHANGED << app_vars, score_vars, args, i, sampled, best_score,
                    best_combo, returned >>

\* line 13, the call: df.sample(n=k) returns a new frame and leaves df as
\* it is
SampleTakingRows ==
    /\ pc = "sample"
    /\ IF k > Len(df.rows)
       THEN /\ Raise("ValueError")
            /\ UNCHANGED << sampled, df >>
       ELSE /\ \E rows \in SampleOutcomes(df, k) :
                 /\ sampled' = DataFrame(rows)
                 /\ df' = DataFrame(SelectSeq(df.rows,
                            LAMBDA r : \A j \in 1..k : rows[j] # r))
            /\ pc' = "choice"
            /\ UNCHANGED raised
    /\ UNCHANGED << app_vars, score_vars, targets, trials, portion_sizes,
                    max_items, i, k, best_score, best_combo, returned >>

Sample ==
    /\ pc = "sample"
    /\ IF k > Len(df.rows)
       THEN /\ Raise("ValueError")
            /\ UNCHANGED sampled
       ELSE /\ \E rows \in SampleOutcomes(df, k) : sampled' = DataFrame(rows)
            /\ pc' = "choice"
            /\ UNCHANGED raised
    /\ UNCHANGED << app_vars, score_vars, args, i, k, best_score, best_combo,
                    returned >>

\* line 14: np.random.choice(portion_sizes, size=len(sampled)).  The name
\* np is looked up before anything else of the statement is evaluated, and
\* no import binds it: NameError, whatever portion_sizes holds.
Choice ==
    /\ pc = "choice"
    /\ Raise("NameError")
    /\ UNCHANGED << app_vars, score_vars, args, i, k, sampled, best_score,
                    best_combo, returned >>

\* line 25
Return ==
    /\ pc = "return"
    /\ returned' = best_combo
    /\ pc' = "returned"
    /\ UNCHANGED << app_vars, score_vars, args, i, k, sampled, best_score,
                    best_combo, raised >>

\* lines 15-24 follow line 14 in the loop body and are reached by no call
Next == For \/ Randint \/ Sample \/ Choice \/ Return

Spec == Init /\ [][Next]_vars

(***************************************************************************)
(* score applied to a meal and targets (lines 6-7).                        *)
(***************************************************************************)
ScoreInit ==
    /\ \E n \in 2..MaxCatalog : df = DataFrame(load_data(n))
    /\ targets \in TargetChoices
    /\ trials = 0
    /\ portion_sizes = DefaultPortions
    /\ max_items = 3
    /\ CallBegins
    /\ meal \in Meals(df)
    /\ s = Unbound
    /\ SessionBegins

\* line 7
ApplyScore ==
    /\ s = Unbound
    /\ s' = score(meal, targets)
    /\ UNCHANGED << engine_vars, app_vars, meal >>

ScoreNext == ApplyScore

ScoreSpec == ScoreInit /\ [][ScoreNext]_vars

(***************************************************************************)
(* The script (lines 44-270).  Streamlit runs it from the top on every     *)
(* interaction; a button is True only in the run its click started.        *)
(***************************************************************************)
MealCount(file) ==
    Cardinality({ j \in 1..Len(file.rows) :
                    file.rows[j]["Food Item"] = CsvText("Meal Logged") })

\* an interaction starts a run (the Save button shows only under a non-empty
\* selection, line 125)
StartRun ==
    /\ run_pc = "idle"
    /\ \E e \in Events :
          /\ e.button = "save" => MealCount(log_file) < MaxMeals
          /\ event' = e
    /\ run_pc' = "sidebar"
    /\ results' = <<>>
    /\ preview' = NotRendered
    /\ exception' = ""
    /\ UNCHANGED << engine_vars, score_vars, log_file, reset_trigger, clock, saved >>

\* the run is over, by the end of the script or by an uncaught exception
EndRun ==
    /\ run_pc' = "idle"
    /\ event' = NoEvent

\* lines 78-81: the Clear button, shown while the log holds something
SidebarClear ==
    /\ run_pc = "sidebar"
    /\ IF NonEmptyLog(log_file)
       THEN /\ IF event.button = "clear"
               THEN /\ log_file' = Absent
                    /\ saved' = <<>>
               ELSE UNCHANGED << log_file, saved >>
            /\ run_pc' = "download"
       ELSE /\ run_pc' = "title"
            /\ UNCHANGED << log_file, saved >>
    /\ UNCHANGED << engine_vars, score_vars, reset_trigger, event, results, preview,
                    exception, clock >>

\* lines 83-89: open(log_file, "rb") for the download button
SidebarDownload ==
    /\ run_pc = "download"
    /\ IF log_file.exists
       THEN /\ run_pc' = "title"
            /\ UNCHANGED exception
            /\ UNCHANGED event
       ELSE /\ exception' = "FileNotFoundError"
            /\ EndRun
    /\ UNCHANGED << engine_vars, score_vars, log_file, reset_trigger, results, preview,
                    clock, saved >>

\* st.rerun(): the run ends and the script starts again, no button pressed
Rerun ==
    /\ run_pc' = "sidebar"
    /\ event' = [ event EXCEPT !.button = "none" ]
    /\ results' = <<>>

\* lines 93-95
ResetButton ==
    /\ run_pc = "title"
    /\ IF event.button = "reset"
       THEN /\ reset_trigger' = TRUE
            /\ Rerun
       ELSE /\ run_pc' = "selection"
            /\ UNCHANGED << reset_trigger, event, results >>
    /\ UNCHANGED << engine_vars, score_vars, log_file, preview, exception, clock, saved >>

\* lines 98-122
Selection ==
    /\ run_pc = "selection"
    /\ IF reset_trigger
       THEN /\ event' = [ event EXCEPT !.meal_tag = "", !.selected_items = <<>> ]
            /\ reset_trigger' = FALSE
       ELSE UNCHANGED << event, reset_trigger >>
    /\ results' = [ j \in 1..Len(event'.selected_items) |->
                      ResultRow(df, event'.selected_items[j],
                                event'.qty[event'.selected_items[j]]) ]
    /\ run_pc' = "summary"
    /\ UNCHANGED << engine_vars, score_vars, log_file, preview, exception, clock, saved >>

\* lines 125-195
SummarySave ==
    /\ run_pc = "summary"
    /\ IF results # <<>> /\ event.button = "save"
       THEN \E now \in clock..Len(Instants) :
               LET total == [ m \in Macros |-> Num(CellSum(results, m)) ]
                   df_summary == Append(results, TotalRow(results))
                   timestamp == Instants[now].text
                   tag == IF event.meal_tag # "" THEN event.meal_tag ELSE "Untitled"
                   log_df == LogRows(df_summary, total, timestamp, tag)
               IN /\ log_file' = SavedLog(log_file, log_df)
                  /\ saved' = Append(saved,
                        [ tag |-> tag, ts |-> timestamp,
                          day |-> Instants[now].fields[1],
                          total |-> [ m \in Macros |-> total[m].n ],
                          items |-> Len(results) ])
                  /\ clock' = now
                  /\ reset_trigger' = TRUE
                  /\ Rerun
       ELSE /\ run_pc' = "preview"
            /\ UNCHANGED << log_file, saved, clock, reset_trigger, event, results >>
    /\ UNCHANGED << engine_vars, score_vars, preview, exception >>

\* lines 198-270
Preview ==
    /\ run_pc = "preview"
    /\ IF NonEmptyLog(log_file)
       THEN LET log_df == fillna(read_csv(log_file))
                index == MealIndex(log_df)
            IN IF \E j \in 1..Len(index) :
                     Split(log_df[index[j] + 1]["Timestamp"].s) = <<>>
               THEN /\ exception' = "IndexError"
                    /\ UNCHANGED preview
               ELSE /\ preview' = [ rendered |-> TRUE,
                                    groups |-> RenderGroups(log_df) ]
                    /\ UNCHANGED exception
       ELSE /\ preview' = [ rendered |-> TRUE, groups |-> <<>> ]
            /\ UNCHANGED exception
    /\ EndRun
    /\ UNCHANGED << engine_vars, score_vars, log_file, reset_trigger, results, clock, saved >>

\* the arguments suggest_meal is defined with (line 5), never called here
LogInit ==
    /\ df = DataFrame(load_data(Len(FoodTable)))
    /\ targets = [ Calories |-> 2500, Protein |-> 150, Carbs |-> 200, Fats |-> 70 ]
    /\ trials = 2000
    /\ portion_sizes = DefaultPortions
    /\ max_items = 3
    /\ CallBegins
    /\ ScoreIdle
    /\ SessionBegins

LogNext ==
    \/ StartRun
    \/ SidebarClear
    \/ SidebarDownload
    \/ ResetButton
    \/ Selection
    \/ SummarySave
    \/ Preview

LogSpec == LogInit /\ [][LogNext]_vars

(***************************************************************************)
(* Properties of suggest_meal.                                             *)
(***************************************************************************)
Ended == pc \in { "returned", "raised" }

RowLabels(frame) == { frame.rows[j].label : j \in 1..Len(frame.rows) }

\* every score computed is within the range in which PolySign is exact
ScoresExact == PolySmall(s.num) /\ PolySmall(s.den)

\* the arguments the engine is specified for: a catalog of 2 or more rows,
\* 2 <= max_items <= |catalog|, a non-empty portion_sizes, trials >= 1
ValidCall ==
    /\ Len(df.rows) >= 2
    /\ max_items >= 2
    /\ max_items <= Len(df.rows)
    /\ Len(portion_sizes) > 0
    /\ trials >= 1

\* C1: with a catalog of fewer than 2 rows and trials >= 1 the call reports
\* InvalidCatalog and attempts no trial: no combination size is drawn and
\* no sample is taken.
C1_InvalidCatalogBeforeAnyTrial ==
    (Len(df.rows) < 2 /\ trials >= 1) =>
        /\ k = 0
        /\ sampled = None
        /\ pc # "returned"
        /\ pc = "raised" => raised = "InvalidCatalog"

\* C2: trials < 1, an empty portion_sizes or max_items < 2 end the call in
\* InvalidConfiguration before the loop begins, and every call ends in
\* exactly one of a candidate or an error.
C2_InvalidConfigurationOrResult ==
    LET invalid == trials < 1 \/ Len(portion_sizes) = 0 \/ max_items < 2
    IN /\ invalid => (i = 0 /\ k = 0 /\ pc # "returned")
       /\ (invalid /\ pc = "raised") => raised = "InvalidConfiguration"
       /\ Ended => ((returned # None) # (raised # ""))

\* C3: with max_items above the catalog size (catalog of 2 or more rows, the
\* other arguments valid) every drawn size lies in 2..|catalog|, no trial
\* fails, and the call returns a candidate.
C3_MaxItemsClamped ==
    ( /\ Len(df.rows) >= 2
      /\ max_items > Len(df.rows)
      /\ trials >= 1
      /\ Len(portion_sizes) > 0 ) =>
        /\ k # 0 => k \in 2..Len(df.rows)
        /\ pc # "raised"
        /\ pc = "returned" => returned # None

\* C4: a call with valid arguments completes each of its trials, keeping as
\* incumbent the earliest candidate of minimum score, and returns the
\* incumbent after the last trial: it ends at line 25 after `trials`
\* iterations, the incumbent is a candidate with a finite score, and the
\* returned value is that incumbent.  Before any trial has completed the
\* incumbent is absent with score infinity.
C4_IncumbentIsEarliestMinimum ==
    /\ (best_score = Inf) <=> (best_combo = None)
    /\ pc = "returned" => returned = best_combo
    /\ (ValidCall /\ Ended) =>
          /\ pc = "returned"
          /\ i = trials
          /\ best_score # Inf
          /\ best_combo # None

\* C5: the score of a meal is >= 0, and is 0 only when every macro total
\* equals its target.
C5_ScoreNonNegative ==
    s # Unbound =>
        /\ ScoreSign(s) >= 0
        /\ ScoreSign(s) = 0 =>
             \A m \in DOMAIN targets : ColumnSum(meal, m) = 2 * targets[m]

\* C6: every candidate formed, kept or returned has k pairwise distinct
\* catalog rows with 2 <= k <= max_items and k <= |catalog|.
CandidateOk(frame) ==
    frame # None =>
        /\ Len(frame.rows) >= 2
        /\ Len(frame.rows) <= max_items
        /\ Len(frame.rows) <= Len(df.rows)
        /\ Cardinality(RowLabels(frame)) = Len(frame.rows)
        /\ RowLabels(frame) \subseteq RowLabels(df)

C6_CandidateSizeAndDistinct ==
    /\ CandidateOk(sampled)
    /\ CandidateOk(best_combo)
    /\ CandidateOk(returned)

\* a trial over a catalog of 3 rows, max_items 4, has drawn all 3 rows
C6_Witness ==
    /\ i = 1
    /\ max_items = 4
    /\ Len(df.rows) = 3
    /\ sampled # None
    /\ Len(sampled.rows) = 3
    /\ k = 3

\* C9: no step of a call changes the catalog, the targets or portion_sizes,
\* whatever the number of trials, and the rows of the sample are rows of
\* the catalog as it was loaded: no column is written to them.
C9_ArgumentsUnchanged ==
    /\ [][ /\ df' = df
           /\ targets' = targets
           /\ portion_sizes' = portion_sizes ]_vars
    /\ [](\A j \in 1..Len(sampled.rows) :
             \E l \in 1..Len(df.rows) : sampled.rows[j] = df.rows[l])

\* a call of 3 trials has ended after sampling 2 of 3 rows, and the catalog
\* is still the loaded table
C9_Witness ==
    /\ Ended
    /\ trials = 3
    /\ sampled # None
    /\ Len(sampled.rows) = 2
    /\ Len(df.rows) = 3
    /\ df = DataFrame(load_data(3))

(***************************************************************************)
(* Properties of the log.                                                  *)
(***************************************************************************)
\* the meals the preview rendered, over all day groups
Rendered ==
    UNION { { [ day |-> preview.groups[g].day,
                meal |-> preview.groups[g].meals[m] ] :
                  m \in 1..Len(preview.groups[g].meals) } :
              g \in 1..Len(preview.groups) }

\* the rendered meal that is the j-th of the log
RenderedAt(j) ==
    { r \in Rendered :
        Cardinality({ q \in Rendered : q.meal.index <= r.meal.index }) = j }

\* C7: once the preview is rendered, every saved meal is reconstructed as
\* exactly one meal, in the day group of the date of its timestamp, with its
\* tag, its timestamp and its totals of Calories, Protein, Carbs and Fats;
\* one save on an empty log gives one day group holding one meal.
C7_LogRoundTrip ==
    preview.rendered =>
        /\ Cardinality(Rendered) = Len(saved)
        /\ \A j \in 1..Len(saved) :
              /\ Cardinality(RenderedAt(j)) = 1
              /\ \A r \in RenderedAt(j) :
                    /\ r.day = saved[j].day
                    /\ r.meal.tag = saved[j].tag
                    /\ r.meal.ts = saved[j].ts
                    /\ \A m \in Macros : r.meal[m] = saved[j].total[m]
        /\ Len(saved) = 1 =>
              (Len(preview.groups) = 1 /\ Len(preview.groups[1].meals) = 1)

IsMarker(field, text) == field = CsvText(text)

IsItem(row) ==
    ~IsMarker(row["Food Item"], "Meal Logged") /\ ~IsMarker(row["Food Item"], "---")

\* C8: the log is a concatenation of blocks of one or more item rows, one
\* 'Meal Logged' row with a non-empty timestamp and tag, and one '---' row
\* right after it; there are as many '---' rows as 'Meal Logged' rows; the
\* backward scan from a 'Meal Logged' row stops at the nearest earlier
\* marker and selects the item rows of its own block only.
C8_LogIsBlocks ==
    LET rows == log_file.rows
        n == Len(rows)
        parsed == fillna(read_csv(log_file))
    IN /\ \A j \in 1..n :
            /\ IsMarker(rows[j]["Food Item"], "Meal Logged") =>
                  /\ j < n /\ IsMarker(rows[j + 1]["Food Item"], "---")
                  /\ j > 1 /\ IsItem(rows[j - 1])
                  /\ rows[j]["Timestamp"] # CsvText("")
                  /\ rows[j]["Meal Tag"] # CsvText("")
            /\ IsMarker(rows[j]["Food Item"], "---") =>
                  j > 1 /\ IsMarker(rows[j - 1]["Food Item"], "Meal Logged")
            /\ IsItem(rows[j]) => j < n
       /\ Cardinality({ j \in 1..n : IsMarker(rows[j]["Food Item"], "---") })
             = MealCount(log_file)
       /\ \A j \in 1..n :
            IsMarker(rows[j]["Food Item"], "Meal Logged") =>
               LET start == ScanBack(parsed, j - 2)
               IN /\ start + 2 <= j - 1
                  /\ start >= 0 => IsMarker(rows[start + 1]["Food Item"], "---")
                  /\ \A l \in (start + 2)..(j - 1) : IsItem(rows[l])

\* C10: the sidebar opens the log for download only while the file exists,
\* also in the run in which Clear was pressed; with the log removed the
\* preview shows no meals.
C10_DownloadOpensExistingLog ==
    /\ run_pc = "download" => log_file.exists
    /\ exception # "FileNotFoundError"
    /\ (preview.rendered /\ ~log_file.exists) => preview.groups = <<>>
=============================================================================
